---- MODULE Spec2Model ----
(***************************************************************************)
(* The order-validation-and-ledger engine of the BRVM portfolio manager    *)
(* (src/app.py, class BRVMPortfolioManager) as a state machine.            *)
(*                                                                         *)
(* Money and prices are exact integers counted in thousandths of a FCFA    *)
(* (FCFA(8500) = 8500000): every price offered to the model is a multiple  *)
(* of 0.5 FCFA and every reference price a whole number of FCFA, so the    *)
(* 0.6 % commission (3/500) and the 7.5 % band (3/40) are computed without *)
(* rounding.  An instant of the wall clock is a day number (day 0 is a      *)
(* Monday) and a minute of that day.                                       *)
(***************************************************************************)
EXTENDS Integers, Sequences, FiniteSets, TLC

VARIABLES
    cash_balance,   \* st.session_state.cash_balance
    portfolio,      \* st.session_state.portfolio : symbol -> position
    transactions,   \* st.session_state.transactions : the log
    remote,         \* portfolio_data.json of the GitHub repository: <<>> or <<data>>
    GITHUB_TOKEN,   \* the configured token ("" when not configured)
    last,           \* the last call made on the session and what it returned
    faults,         \* number of calls that ended in an uncaught exception
    now,            \* datetime.now(): the wall clock
    sync,           \* what the session last saved or loaded (history)
    twin,           \* a second session fed the same orders at other times
    calls           \* the execute_order calls in progress, one per thread

vars == <<cash_balance, portfolio, transactions, remote, GITHUB_TOKEN, last, faults,
          now, sync, twin, calls>>

ledger == <<cash_balance, portfolio, transactions>>

(***************************************************************************)
(* Bounds of the model.                                                    *)
(***************************************************************************)
MaxLog == 3        \* orders are submitted while the log is shorter than this
MaxFaults == 1     \* calls that raise are explored up to this many times

FCFA(x) == x * 1000
HalfFCFA(x) == x * 500

Max(a, b) == IF a >= b THEN a ELSE b

None == <<>>       \* an optional argument left out (Python None)
Some(x) == <<x>>

(***************************************************************************)
(* load_market_data: the instrument registry and the BRVM rule set.        *)
(* Two of the 27 instruments are kept.                                     *)
(***************************************************************************)
market_data ==
    [s \in {"BICC", "ETIT"} |->
        IF s = "BICC"
        THEN [price |-> FCFA(8500), volume |-> 15000, sector |-> "Construction"]
        ELSE [price |-> FCFA(18), volume |-> 45000, sector |-> "Telecom"]]

\* price_limits.static = 0.075 = StaticLimitNum / StaticLimitDen
StaticLimitNum == 3
StaticLimitDen == 40
\* commission_rate = 0.006 = CommissionRateNum / CommissionRateDen
CommissionRateNum == 3
CommissionRateDen == 500
min_commission == FCFA(5000)
\* the liquidity cap, volume * 0.1 = volume / VolumeCapDen
VolumeCapDen == 10
min_lot_size == 1
InitialCash == FCFA(1000000)
settlement_days == 3

\* an instant: the day (0 is a Monday) and the minute of the day
Instant(day, hour, minute) == [day |-> day, minute |-> hour * 60 + minute]

\* trading_hours, as minutes of the day ('08:00' and '15:30')
trading_open == Instant(0, 8, 0).minute
trading_close == Instant(0, 15, 30).minute

\* now.strftime('%A')
DayName(t) ==
    <<"Monday", "Tuesday", "Wednesday", "Thursday", "Friday",
      "Saturday", "Sunday">>[(t.day % 7) + 1]

trading_days == {"Monday", "Tuesday", "Wednesday", "Thursday", "Friday"}

(***************************************************************************)
(* is_trading_time at instant t = <<open, message>>                        *)
(***************************************************************************)
is_trading_time(t) ==
    IF DayName(t) \notin trading_days
    THEN <<FALSE, "Marche ferme (weekend)">>
    ELSE IF t.minute < trading_open
    THEN <<FALSE, "Marche pas encore ouvert">>
    ELSE IF t.minute > trading_close
    THEN <<FALSE, "Marche ferme">>
    ELSE <<TRUE, "Marche ouvert">>

(***************************************************************************)
(* calculate_price_limits(reference_price) = <<lower_limit, upper_limit>>  *)
(***************************************************************************)
calculate_price_limits(reference_price) ==
    LET delta == (reference_price \div StaticLimitDen) * StaticLimitNum
    IN  <<reference_price - delta, reference_price + delta>>

\* the commission with min where the code has max
calculate_commission_Min(amount) ==
    LET rate_commission == (amount \div CommissionRateDen) * CommissionRateNum
    IN  IF rate_commission < min_commission THEN rate_commission ELSE min_commission

(***************************************************************************)
(* calculate_commission(amount) = max(amount * rate, min_commission)       *)
(***************************************************************************)
calculate_commission(amount) ==
    Max((amount \div CommissionRateDen) * CommissionRateNum, min_commission)

(***************************************************************************)
(* The pieces of execute_order.                                            *)
(***************************************************************************)
\* order_price = price if price else current_price  (None and 0 are falsy)
ResolvePrice(price, current_price) ==
    IF price # None /\ price[1] # 0 THEN price[1] ELSE current_price

\* PriceOutOfLimits with the comparisons made inclusive
PriceOutOfLimits_Inclusive(order_price, lower_limit, upper_limit) ==
    order_price <= lower_limit \/ order_price >= upper_limit

\* order_price < lower_limit or order_price > upper_limit
PriceOutOfLimits(order_price, lower_limit, upper_limit) ==
    order_price < lower_limit \/ order_price > upper_limit

\* TotalCost with the commission forgotten
TotalCost_NoCommission(total_amount, commission) == total_amount

\* total_cost = total_amount + commission
TotalCost(total_amount, commission) == total_amount + commission

\* total_received = total_amount - commission
TotalReceived(total_amount, commission) == total_amount - commission

\* st.session_state.cash_balance < total_cost
InsufficientCash(cash, total_cost) == cash < total_cost

\* quantity > volume * 0.1
ExceedsLiquidity(quantity, volume) == quantity * VolumeCapDen > volume

\* the holdings check, refusing every sale while the market is closed
InsufficientHoldings_OrClosed(pf, symbol, quantity) ==
    \/ ~is_trading_time(now)[1]
    \/ symbol \notin DOMAIN pf \/ pf[symbol].quantity < quantity

\* symbol not in portfolio or portfolio[symbol]['quantity'] < quantity
InsufficientHoldings(pf, symbol, quantity) ==
    symbol \notin DOMAIN pf \/ pf[symbol].quantity < quantity

\* the position created by the first BUY of a symbol
NewPosition(quantity, order_price, sector) ==
    [quantity |-> quantity, avg_price |-> order_price, sector |-> sector]

\* "Recalcul du prix moyen pondere", evaluated after quantity was increased:
\*   old_value = avg_price * new_quantity - quantity * order_price
\*   avg_price = (old_value + quantity * order_price) / new_quantity
RecalculatedAvgPrice(avg_price, new_quantity, quantity, order_price) ==
    LET old_value == avg_price * new_quantity - quantity * order_price
    IN  (old_value + quantity * order_price) \div new_quantity

\* pf with the entry of symbol set to pos (dict item assignment)
SetItem(pf, symbol, pos) ==
    [s \in DOMAIN pf \cup {symbol} |-> IF s = symbol THEN pos ELSE pf[s]]

\* del pf[symbol]
DelItem(pf, symbol) == [s \in DOMAIN pf \ {symbol} |-> pf[s]]

\* ReducePosition without the removal of an emptied position
ReducePosition_NoDelete(pf, symbol, quantity) ==
    [pf EXCEPT ![symbol].quantity = pf[symbol].quantity - quantity]

\* portfolio[symbol]['quantity'] -= quantity, then "Suppression si quantite = 0"
ReducePosition(pf, symbol, quantity) ==
    LET left == pf[symbol].quantity - quantity
    IN  IF left = 0
        THEN DelItem(pf, symbol)
        ELSE [pf EXCEPT ![symbol].quantity = left]

\* the transaction record of an executed order
Transaction(symbol, type, quantity, order_price, commission, total) ==
    [timestamp |-> now,
     symbol |-> symbol, type |-> type, quantity |-> quantity,
     price |-> order_price, commission |-> commission, total |-> total,
     settlement_date |-> [now EXCEPT !.day = @ + settlement_days]]

\* AppendTransaction inserting at the head of the log
AppendTransaction_AtHead(log, transaction) == <<transaction>> \o log

\* st.session_state.transactions.append(transaction)
AppendTransaction(log, transaction) == Append(log, transaction)

\* what a call leaves in 'last'
Call(op, symbol, order_type, quantity, price, ok, msg, raised) ==
    [op |-> op, symbol |-> symbol, order_type |-> order_type,
     quantity |-> quantity, price |-> price,
     ok |-> ok, msg |-> msg, raised |-> raised]

\* return False, msg: nothing of the session was written
Reject(symbol, order_type, quantity, price, msg) ==
    /\ last' = Call("execute_order", symbol, order_type, quantity, price,
                    FALSE, msg, FALSE)
    /\ UNCHANGED <<cash_balance, portfolio, transactions, faults>>

\* return True, msg
Accept(symbol, order_type, quantity, price, msg) ==
    /\ last' = Call("execute_order", symbol, order_type, quantity, price,
                    TRUE, msg, FALSE)
    /\ UNCHANGED faults

(***************************************************************************)
(* execute_order, the BUY branch.                                          *)
(***************************************************************************)
Buy(symbol, quantity, price, order_price, total_amount, commission) ==
    LET total_cost == TotalCost(total_amount, commission)
    IN  IF InsufficientCash(cash_balance, total_cost)
        THEN Reject(symbol, "BUY", quantity, price, "Liquidites insuffisantes")
        ELSE IF ExceedsLiquidity(quantity, market_data[symbol].volume)
        THEN Reject(symbol, "BUY", quantity, price, "Quantite trop importante")
        ELSE IF symbol \in DOMAIN portfolio
        THEN LET new_quantity == portfolio[symbol].quantity + quantity
             IN  IF new_quantity = 0
                 THEN \* ZeroDivisionError in the average price, raised after
                      \* cash and quantity were written and before the log is
                      /\ faults < MaxFaults
                      /\ cash_balance' = cash_balance - total_cost
                      /\ portfolio' = [portfolio EXCEPT ![symbol].quantity = new_quantity]
                      /\ UNCHANGED transactions
                      /\ faults' = faults + 1
                      /\ last' = Call("execute_order", symbol, "BUY", quantity, price,
                                      FALSE, "ZeroDivisionError", TRUE)
                 ELSE /\ cash_balance' = cash_balance - total_cost
                      /\ portfolio' =
                            [portfolio EXCEPT
                               ![symbol].quantity = new_quantity,
                               ![symbol].avg_price =
                                   RecalculatedAvgPrice(portfolio[symbol].avg_price,
                                                        new_quantity, quantity, order_price)]
                      /\ transactions' = AppendTransaction(transactions,
                            Transaction(symbol, "BUY", quantity, order_price,
                                        commission, total_cost))
                      /\ Accept(symbol, "BUY", quantity, price, "Achat execute")
        ELSE /\ cash_balance' = cash_balance - total_cost
             /\ portfolio' = SetItem(portfolio, symbol,
                    NewPosition(quantity, order_price, market_data[symbol].sector))
             /\ transactions' = AppendTransaction(transactions,
                    Transaction(symbol, "BUY", quantity, order_price,
                                commission, total_cost))
             /\ Accept(symbol, "BUY", quantity, price, "Achat execute")

\* Sell with the cash credited before the holdings are checked
Sell_CreditBeforeCheck(symbol, quantity, price, order_price, total_amount, commission) ==
    LET total_received == TotalReceived(total_amount, commission)
    IN  /\ cash_balance' = cash_balance + total_received
        /\ IF InsufficientHoldings(portfolio, symbol, quantity)
           THEN /\ last' = Call("execute_order", symbol, "SELL", quantity, price,
                                FALSE, "Actions insuffisantes", FALSE)
                /\ UNCHANGED <<portfolio, transactions, faults>>
           ELSE /\ portfolio' = ReducePosition(portfolio, symbol, quantity)
                /\ transactions' = AppendTransaction(transactions,
                       Transaction(symbol, "SELL", quantity, order_price,
                                   commission, total_received))
                /\ Accept(symbol, "SELL", quantity, price, "Vente executee")

(***************************************************************************)
(* execute_order, the SELL branch.                                         *)
(***************************************************************************)
Sell(symbol, quantity, price, order_price, total_amount, commission) ==
    IF InsufficientHoldings(portfolio, symbol, quantity)
    THEN Reject(symbol, "SELL", quantity, price, "Actions insuffisantes")
    ELSE LET total_received == TotalReceived(total_amount, commission)
         IN  /\ cash_balance' = cash_balance + total_received
             /\ portfolio' = ReducePosition(portfolio, symbol, quantity)
             /\ transactions' = AppendTransaction(transactions,
                    Transaction(symbol, "SELL", quantity, order_price,
                                commission, total_received))
             /\ Accept(symbol, "SELL", quantity, price, "Vente executee")

(***************************************************************************)
(* execute_order(symbol, order_type, quantity, price=None)                 *)
(***************************************************************************)
execute_order(symbol, order_type, quantity, price) ==
    /\ Len(transactions) < MaxLog
    /\ UNCHANGED <<remote, GITHUB_TOKEN, now, sync, calls>>
    /\ IF symbol \notin DOMAIN market_data
       THEN Reject(symbol, order_type, quantity, price, "Symbole non trouve")
       ELSE LET current_price == market_data[symbol].price
                order_price   == ResolvePrice(price, current_price)
                limits        == calculate_price_limits(current_price)
            IN  IF PriceOutOfLimits(order_price, limits[1], limits[2])
                THEN Reject(symbol, order_type, quantity, price, "Prix hors limites")
                ELSE LET total_amount == quantity * order_price
                         commission   == calculate_commission(total_amount)
                     IN  IF order_type = "BUY"
                         THEN Buy(symbol, quantity, price, order_price,
                                  total_amount, commission)
                         ELSE IF order_type = "SELL"
                         THEN Sell(symbol, quantity, price, order_price,
                                   total_amount, commission)
                         ELSE \* neither branch: the function falls off its end
                              /\ last' = Call("execute_order", symbol, order_type,
                                              quantity, price, FALSE, "None", FALSE)
                              /\ UNCHANGED <<cash_balance, portfolio, transactions, faults>>

(***************************************************************************)
(* The orders offered to execute_order.                                    *)
(***************************************************************************)
Sides == {"BUY", "SELL"}

OrderInputs ==
    \* market orders on BICC, with valid and invalid quantities
    ({"BICC"} \X Sides \X {-10, 0, 10} \X {None})
    \cup
    \* limit orders on BICC: below, at and above the two limits, and price 0
    ({"BICC"} \X Sides \X {10} \X
        {Some(FCFA(7800)), Some(HalfFCFA(15725)), Some(FCFA(9000)),
         Some(HalfFCFA(18275)), Some(FCFA(9200))})
    \cup
    {<<"BICC", "BUY", 10, Some(0)>>,
     <<"BICC", "BUY", 116, None>>,
     <<"BICC", "HOLD", 10, None>>,
     <<"XXXX", "BUY", 10, None>>,
     <<"XXXX", "SELL", 10, None>>}
    \cup
    \* ETIT: a one-share order and one above 10 % of the volume
    ({"ETIT"} \X Sides \X {1, 4501} \X {None})

ExecuteOrder ==
    /\ \E o \in OrderInputs : execute_order(o[1], o[2], o[3], o[4])
    /\ UNCHANGED twin

(***************************************************************************)
(* Init: initialize_session_state; nothing saved yet, no token configured. *)
(***************************************************************************)
NoCall == Call("", "", "", 0, None, FALSE, "", FALSE)

EmptyPortfolio == [s \in {} |-> NewPosition(0, 0, "")]

\* the session is started on a Monday at 10:00
StartInstant == Instant(0, 10, 0)

\* nothing saved or loaded yet
NoSync == [how |-> "", content |-> <<>>, data |-> <<>>, after |-> ""]

\* no second session, no call in progress
NoTwin == <<>>
NoCalls == <<>>

Init ==
    /\ cash_balance = InitialCash
    /\ portfolio = EmptyPortfolio
    /\ transactions = <<>>
    /\ remote = <<>>
    /\ GITHUB_TOKEN = ""
    /\ last = NoCall
    /\ faults = 0
    /\ now = StartInstant
    /\ sync = NoSync
    /\ twin = NoTwin
    /\ calls = NoCalls

(***************************************************************************)
(* Persistence: the session is written to and read from the file           *)
(* portfolio_data.json of a GitHub repository.                             *)
(***************************************************************************)
\* json.dumps: a dict becomes a JSON object (its set of members), a list a
\* JSON array, a number stays the number
json_dumps(data) ==
    [portfolio |-> {<<s, data.portfolio[s]>> : s \in DOMAIN data.portfolio},
     transactions |-> data.transactions,
     cash_balance |-> data.cash_balance]

\* json.loads followed by reads that always take the default cash
json_loads_DefaultCash(content) ==
    [portfolio |->
        [s \in {m[1] : m \in content.portfolio} |->
            (CHOOSE m \in content.portfolio : m[1] = s)[2]],
     transactions |-> content.transactions,
     cash_balance |-> InitialCash]

\* json.loads: the object's members become the dict again
json_loads(content) ==
    [portfolio |->
        [s \in {m[1] : m \in content.portfolio} |->
            (CHOOSE m \in content.portfolio : m[1] = s)[2]],
     transactions |-> content.transactions,
     cash_balance |-> content.cash_balance]

\* the data written by save_to_github ('last_update', a time, is left out)
SessionData ==
    [portfolio |-> portfolio, transactions |-> transactions,
     cash_balance |-> cash_balance]

\* the blob sha the contents API reports for the file: it identifies the content
BlobSha(file) == Some(file[1])

\* requests.get(url) of the contents API: the stored file when the request
\* succeeds and the file exists (status 200), else nothing
GetContents(request_ok) == IF request_ok THEN remote ELSE <<>>

\* whether the contents API accepts a PUT carrying 'sha': creating the file
\* needs none, updating it needs the sha of the stored blob
PutAccepted(sha) == IF remote = <<>> THEN TRUE ELSE sha = BlobSha(remote)

Returned(op, ok, msg) ==
    last' = Call(op, "", "", 0, None, ok, msg, FALSE)

save_to_github(get_ok, put_ok) ==
    /\ UNCHANGED <<cash_balance, portfolio, transactions, GITHUB_TOKEN, faults>>
    /\ UNCHANGED <<now, twin, calls>>
    /\ IF GITHUB_TOKEN = ""
       THEN /\ Returned("save_to_github", FALSE, "Token GitHub non configure")
            /\ UNCHANGED remote
       ELSE LET content  == json_dumps(SessionData)
                response == GetContents(get_ok)
                sha      == IF response # <<>> THEN BlobSha(response) ELSE None
            IN  IF put_ok /\ PutAccepted(sha)
                THEN /\ remote' = <<content>>
                     /\ Returned("save_to_github", TRUE, "Donnees sauvegardees")
                ELSE /\ UNCHANGED remote
                     /\ Returned("save_to_github", FALSE, "Erreur lors de la sauvegarde")

\* load_from_github falling back to the defaults when no file is found
load_from_github_DefaultsOnFailure(get_ok) ==
    /\ UNCHANGED <<remote, GITHUB_TOKEN, faults>>
    /\ UNCHANGED <<now, twin, calls>>
    /\ IF GITHUB_TOKEN = ""
       THEN /\ Returned("load_from_github", FALSE, "")
            /\ UNCHANGED <<cash_balance, portfolio, transactions>>
       ELSE LET response == GetContents(get_ok)
            IN  IF response # <<>>
                THEN LET data == json_loads(response[1])
                     IN  /\ portfolio' = data.portfolio
                         /\ transactions' = data.transactions
                         /\ cash_balance' = data.cash_balance
                         /\ Returned("load_from_github", TRUE, "Donnees chargees")
                ELSE /\ portfolio' = EmptyPortfolio
                     /\ transactions' = <<>>
                     /\ cash_balance' = InitialCash
                     /\ Returned("load_from_github", FALSE, "Aucune sauvegarde trouvee")

\* load_from_github adding the loaded positions to the session's own
\* (dict.update) instead of replacing them
load_from_github_UpdatesPortfolio(get_ok) ==
    /\ UNCHANGED <<remote, GITHUB_TOKEN, faults>>
    /\ UNCHANGED <<now, twin, calls>>
    /\ IF GITHUB_TOKEN = ""
       THEN /\ Returned("load_from_github", FALSE, "")
            /\ UNCHANGED <<cash_balance, portfolio, transactions>>
       ELSE LET response == GetContents(get_ok)
            IN  IF response # <<>>
                THEN LET data == json_loads(response[1])
                     IN  /\ portfolio' =
                               [s \in DOMAIN portfolio \cup DOMAIN data.portfolio |->
                                   IF s \in DOMAIN data.portfolio
                                   THEN data.portfolio[s] ELSE portfolio[s]]
                         /\ transactions' = data.transactions
                         /\ cash_balance' = data.cash_balance
                         /\ Returned("load_from_github", TRUE, "Donnees chargees")
                ELSE /\ UNCHANGED <<cash_balance, portfolio, transactions>>
                     /\ Returned("load_from_github", FALSE, "Aucune sauvegarde trouvee")

load_from_github(get_ok) ==
    /\ UNCHANGED <<remote, GITHUB_TOKEN, faults>>
    /\ UNCHANGED <<now, twin, calls>>
    /\ IF GITHUB_TOKEN = ""
       THEN /\ Returned("load_from_github", FALSE, "")
            /\ UNCHANGED <<cash_balance, portfolio, transactions>>
       ELSE LET response == GetContents(get_ok)
            IN  IF response # <<>>
                THEN LET data == json_loads(response[1])
                     IN  /\ portfolio' = data.portfolio
                         /\ transactions' = data.transactions
                         /\ cash_balance' = data.cash_balance
                         /\ Returned("load_from_github", TRUE, "Donnees chargees")
                ELSE /\ UNCHANGED <<cash_balance, portfolio, transactions>>
                     /\ Returned("load_from_github", FALSE, "Aucune sauvegarde trouvee")

\* history: what a successful save or load has just exchanged with the file,
\* and what the session had last done with that same revision of the file
Synced(how) ==
    sync' = IF last'.ok
            THEN [how |-> how, content |-> remote', data |-> <<SessionData'>>,
                  after |-> IF sync.content = remote THEN sync.how ELSE ""]
            ELSE sync

SaveToGithub ==
    /\ \E get_ok \in BOOLEAN, put_ok \in BOOLEAN : save_to_github(get_ok, put_ok)
    /\ Synced("save")

LoadFromGithub ==
    /\ \E get_ok \in BOOLEAN : load_from_github(get_ok)
    /\ Synced("load")

\* the orders offered while the persistence is exercised
PersistOrderInputs ==
    {<<"BICC", "BUY", 10, None>>,
     <<"BICC", "BUY", 10, Some(FCFA(9000))>>,
     <<"BICC", "SELL", 10, None>>,
     <<"ETIT", "BUY", 1, None>>}

ExecuteOrderPersist ==
    /\ \E o \in PersistOrderInputs : execute_order(o[1], o[2], o[3], o[4])
    /\ UNCHANGED twin

\* a session started with or without a configured token
InitPersist ==
    /\ cash_balance = InitialCash
    /\ portfolio = EmptyPortfolio
    /\ transactions = <<>>
    /\ remote = <<>>
    /\ GITHUB_TOKEN \in {"", "token"}
    /\ last = NoCall
    /\ faults = 0
    /\ now = StartInstant
    /\ sync = NoSync
    /\ twin = NoTwin
    /\ calls = NoCalls

(***************************************************************************)
(* Spec: the ledger under any sequence of execute_order calls.             *)
(* SpecPersist: orders interleaved with saves and loads.                   *)
(***************************************************************************)
Next == ExecuteOrder

Spec == Init /\ [][Next]_vars

NextPersist == ExecuteOrderPersist \/ SaveToGithub \/ LoadFromGithub

SpecPersist == InitPersist /\ [][NextPersist]_vars

(***************************************************************************)
(* The trading tab shows the estimated total of the order being typed:     *)
(* calculate_commission is applied to quantity * price, any amount from 0  *)
(* up.  The amounts offered run from 0 to 2,000,000 FCFA, with the two     *)
(* half francs around 5000 / 0.006.                                        *)
(***************************************************************************)
CommissionAmounts ==
    {FCFA(k * 25000) : k \in 0..80}
      \cup {HalfFCFA(2 * 833333), HalfFCFA(2 * 833333 + 1), HalfFCFA(1), FCFA(986000)}

CommissionOrderInputs ==
    {<<"BICC", "BUY", 10, None>>, <<"BICC", "BUY", 116, None>>,
     <<"BICC", "SELL", 10, None>>, <<"ETIT", "BUY", 1, None>>}

\* lines 515 and 552: the estimate of the order form
EstimateCommission ==
    /\ \E amount \in CommissionAmounts :
          last' = [op |-> "calculate_commission", amount |-> amount,
                   commission |-> calculate_commission(amount)]
    /\ UNCHANGED <<cash_balance, portfolio, transactions, remote, GITHUB_TOKEN,
                   faults, now, sync, twin, calls>>

ExecuteOrderCommission ==
    /\ \E o \in CommissionOrderInputs : execute_order(o[1], o[2], o[3], o[4])
    /\ UNCHANGED twin

NextCommission == EstimateCommission \/ ExecuteOrderCommission

SpecCommission == Init /\ [][NextCommission]_vars

(***************************************************************************)
(* Another session of the application, with the same token, saves to the   *)
(* same file of the same repository.  What it saves is the ledger of a     *)
(* session: the initial one, or one that has bought 1 ETIT.                *)
(***************************************************************************)
OtherSessionData ==
    LET commission == calculate_commission(1 * market_data["ETIT"].price)
        total_cost == TotalCost(1 * market_data["ETIT"].price, commission)
    IN  {[portfolio |-> EmptyPortfolio, transactions |-> <<>>,
          cash_balance |-> InitialCash],
         [portfolio |-> SetItem(EmptyPortfolio, "ETIT",
              NewPosition(1, market_data["ETIT"].price, market_data["ETIT"].sector)),
          transactions |-> <<Transaction("ETIT", "BUY", 1, market_data["ETIT"].price,
                                         commission, total_cost)>>,
          cash_balance |-> InitialCash - total_cost]}

\* save_to_github run by the other session, successfully
OtherSessionSaves ==
    /\ GITHUB_TOKEN # ""
    /\ \E data \in OtherSessionData : remote' = <<json_dumps(data)>>
    /\ remote' # remote
    /\ UNCHANGED <<cash_balance, portfolio, transactions, GITHUB_TOKEN, last,
                   faults, now, sync, twin, calls>>

NextShared == ExecuteOrderPersist \/ SaveToGithub \/ LoadFromGithub \/ OtherSessionSaves

SpecShared == InitPersist /\ [][NextShared]_vars

(***************************************************************************)
(* Two sessions fed the same orders at different instants.  The variables  *)
(* cash_balance, portfolio, transactions and last are the session being    *)
(* served; twin keeps the other one.  Each order is placed once while the  *)
(* market is open and once, on the other session, while it is closed.      *)
(***************************************************************************)
OpenInstants == {Instant(0, 10, 0), Instant(4, 15, 30)}
ClosedInstants == {Instant(0, 7, 59), Instant(0, 15, 31), Instant(5, 10, 0)}

WindowOrderInputs ==
    {<<"BICC", "BUY", 10, None>>, <<"BICC", "SELL", 10, None>>,
     <<"BICC", "BUY", 116, None>>, <<"BICC", "BUY", 10, Some(FCFA(9200))>>,
     <<"ETIT", "BUY", 4501, None>>, <<"XXXX", "BUY", 10, None>>}

\* the session that is not being served
Parked(phase, order) ==
    [phase |-> phase, order |-> order,
     cash_balance |-> cash_balance, portfolio |-> portfolio,
     transactions |-> transactions, last |-> last]

\* the other session comes to be served, at instant t
SwitchSession(phase, t) ==
    /\ cash_balance' = twin.cash_balance
    /\ portfolio' = twin.portfolio
    /\ transactions' = twin.transactions
    /\ last' = twin.last
    /\ twin' = Parked(phase, twin.order)
    /\ now' = t
    /\ UNCHANGED <<remote, GITHUB_TOKEN, faults, sync, calls>>

OrderWhenOpen ==
    /\ twin.phase = "first"
    /\ is_trading_time(now)[1]
    /\ \E o \in WindowOrderInputs :
          /\ execute_order(o[1], o[2], o[3], o[4])
          /\ twin' = [twin EXCEPT !.phase = "switch", !.order = o]

SwitchToClosed ==
    /\ twin.phase = "switch"
    /\ \E t \in ClosedInstants : SwitchSession("second", t)

OrderWhenClosed ==
    /\ twin.phase = "second"
    /\ ~is_trading_time(now)[1]
    /\ LET o == twin.order IN execute_order(o[1], o[2], o[3], o[4])
    /\ twin' = [twin EXCEPT !.phase = "back"]

SwitchToOpen ==
    /\ twin.phase = "back"
    /\ \E t \in OpenInstants : SwitchSession("first", t)

InitWindow ==
    /\ cash_balance = InitialCash
    /\ portfolio = EmptyPortfolio
    /\ transactions = <<>>
    /\ remote = <<>>
    /\ GITHUB_TOKEN = ""
    /\ last = NoCall
    /\ faults = 0
    /\ now \in OpenInstants
    /\ sync = NoSync
    /\ twin = Parked("first", <<>>)
    /\ calls = NoCalls

NextWindow == OrderWhenOpen \/ SwitchToClosed \/ OrderWhenClosed \/ SwitchToOpen

SpecWindow == InitWindow /\ [][NextWindow]_vars

(***************************************************************************)
(* execute_order called from two threads on one session.  The code takes   *)
(* no lock: a call is a sequence of steps, each one the statement at the   *)
(* line its name gives, and the steps of the two calls interleave.  A      *)
(* call keeps its arguments and its local variables in calls.th; calls.base*)
(* is the ledger as it was when no call was in progress.                   *)
(***************************************************************************)
Threads == {1, 2}

ConcOrderInputs ==
    {<<"BICC", "BUY", 10, None>>, <<"BICC", "SELL", 10, None>>,
     <<"BICC", "BUY", 116, None>>}

IdleCall ==
    [pc |-> "idle", symbol |-> "", order_type |-> "", quantity |-> 0,
     price |-> None, order_price |-> 0, total_amount |-> 0, commission |-> 0,
     ok |-> FALSE, msg |-> ""]

InProgress == {th \in Threads : calls.th[th].pc \notin {"idle", "done", "raised"}}
CallsReturned == {th \in Threads : calls.th[th].pc \in {"done", "raised"}}

\* the thread goes on to the statement at pc
Goto(th, pc) == calls' = [calls EXCEPT !.th[th].pc = pc]

\* return ok, msg
Return(th, ok, msg) ==
    LET c == calls.th[th]
    IN  /\ calls' = [calls EXCEPT !.th[th].pc = "done", !.th[th].ok = ok,
                                  !.th[th].msg = msg]
        /\ last' = Call("execute_order", c.symbol, c.order_type, c.quantity,
                        c.price, ok, msg, FALSE)

\* an exception leaves the call (KeyError)
Raise(th, msg) ==
    LET c == calls.th[th]
    IN  /\ calls' = [calls EXCEPT !.th[th].pc = "raised", !.th[th].msg = msg]
        /\ last' = Call("execute_order", c.symbol, c.order_type, c.quantity,
                        c.price, FALSE, msg, TRUE)
        /\ faults' = faults + 1

\* the call is made: arguments bound, nothing executed yet
StartCall(th, o) ==
    /\ calls.th[th].pc = "idle"
    /\ Len(transactions) + Cardinality(InProgress) < MaxLog
    /\ calls' = [calls EXCEPT
          !.th[th] = [IdleCall EXCEPT !.pc = "L114", !.symbol = o[1],
                         !.order_type = o[2], !.quantity = o[3], !.price = o[4]],
          !.base = IF InProgress = {} /\ CallsReturned = {}
                   THEN [cash_balance |-> cash_balance, portfolio |-> portfolio]
                   ELSE @]
    /\ UNCHANGED <<ledger, last, faults>>

\* lines 114-126: symbol, price band, amount and commission (no shared state)
StepL114(th) ==
    LET c == calls.th[th]
    IN  /\ c.pc = "L114"
        /\ UNCHANGED <<ledger, faults>>
        /\ IF c.symbol \notin DOMAIN market_data
           THEN Return(th, FALSE, "Symbole non trouve")
           ELSE LET current_price == market_data[c.symbol].price
                    order_price   == ResolvePrice(c.price, current_price)
                    limits        == calculate_price_limits(current_price)
                    total_amount  == c.quantity * order_price
                IN  IF PriceOutOfLimits(order_price, limits[1], limits[2])
                    THEN Return(th, FALSE, "Prix hors limites")
                    ELSE /\ calls' = [calls EXCEPT
                               !.th[th].pc = IF c.order_type = "BUY" THEN "L130"
                                             ELSE "L169",
                               !.th[th].order_price = order_price,
                               !.th[th].total_amount = total_amount,
                               !.th[th].commission = calculate_commission(total_amount)]
                         /\ UNCHANGED last

\* lines 129-135: the two checks of a BUY
StepL130(th) ==
    LET c == calls.th[th]
    IN  /\ c.pc = "L130"
        /\ UNCHANGED <<ledger, faults>>
        /\ IF InsufficientCash(cash_balance, TotalCost(c.total_amount, c.commission))
           THEN Return(th, FALSE, "Liquidites insuffisantes")
           ELSE IF ExceedsLiquidity(c.quantity, market_data[c.symbol].volume)
           THEN Return(th, FALSE, "Quantite trop importante")
           ELSE Goto(th, "L138") /\ UNCHANGED last

\* line 138: cash_balance -= total_cost
StepL138(th) ==
    LET c == calls.th[th]
    IN  /\ c.pc = "L138"
        /\ cash_balance' = cash_balance - TotalCost(c.total_amount, c.commission)
        /\ Goto(th, "L139")
        /\ UNCHANGED <<portfolio, transactions, last, faults>>

\* line 139: if symbol in portfolio
StepL139(th) ==
    LET c == calls.th[th]
    IN  /\ c.pc = "L139"
        /\ Goto(th, IF c.symbol \in DOMAIN portfolio THEN "L140" ELSE "L146")
        /\ UNCHANGED <<ledger, last, faults>>

\* lines 140-144: the quantity and the average of a position that is held
StepL140(th) ==
    LET c == calls.th[th]
    IN  /\ c.pc = "L140"
        /\ UNCHANGED <<cash_balance, transactions>>
        /\ IF c.symbol \notin DOMAIN portfolio
           THEN Raise(th, "KeyError") /\ UNCHANGED portfolio
           ELSE /\ portfolio' = [portfolio EXCEPT
                      ![c.symbol].quantity = @ + c.quantity,
                      ![c.symbol].avg_price =
                          RecalculatedAvgPrice(@, portfolio[c.symbol].quantity + c.quantity,
                                               c.quantity, c.order_price)]
                /\ Goto(th, "L153")
                /\ UNCHANGED <<last, faults>>

\* lines 146-150: portfolio[symbol] = {...}
StepL146(th) ==
    LET c == calls.th[th]
    IN  /\ c.pc = "L146"
        /\ portfolio' = SetItem(portfolio, c.symbol,
               NewPosition(c.quantity, c.order_price, market_data[c.symbol].sector))
        /\ Goto(th, "L153")
        /\ UNCHANGED <<cash_balance, transactions, last, faults>>

\* lines 153-165: the BUY is logged and True returned
StepL153(th) ==
    LET c == calls.th[th]
    IN  /\ c.pc = "L153"
        /\ transactions' = AppendTransaction(transactions,
               Transaction(c.symbol, "BUY", c.quantity, c.order_price, c.commission,
                           TotalCost(c.total_amount, c.commission)))
        /\ Return(th, TRUE, "Achat execute")
        /\ UNCHANGED <<cash_balance, portfolio, faults>>

\* lines 169-170: the holdings check of a SELL
StepL169(th) ==
    LET c == calls.th[th]
    IN  /\ c.pc = "L169"
        /\ UNCHANGED <<ledger, faults>>
        /\ IF InsufficientHoldings(portfolio, c.symbol, c.quantity)
           THEN Return(th, FALSE, "Actions insuffisantes")
           ELSE Goto(th, "L174") /\ UNCHANGED last

\* lines 173-174: cash_balance += total_received
StepL174(th) ==
    LET c == calls.th[th]
    IN  /\ c.pc = "L174"
        /\ cash_balance' = cash_balance + TotalReceived(c.total_amount, c.commission)
        /\ Goto(th, "L175")
        /\ UNCHANGED <<portfolio, transactions, last, faults>>

\* line 175: portfolio[symbol]['quantity'] -= quantity
StepL175(th) ==
    LET c == calls.th[th]
    IN  /\ c.pc = "L175"
        /\ UNCHANGED <<cash_balance, transactions>>
        /\ IF c.symbol \notin DOMAIN portfolio
           THEN Raise(th, "KeyError") /\ UNCHANGED portfolio
           ELSE /\ portfolio' = [portfolio EXCEPT ![c.symbol].quantity = @ - c.quantity]
                /\ Goto(th, "L178")
                /\ UNCHANGED <<last, faults>>

\* lines 178-179: del portfolio[symbol] when the quantity is 0
StepL178(th) ==
    LET c == calls.th[th]
    IN  /\ c.pc = "L178"
        /\ UNCHANGED <<cash_balance, transactions>>
        /\ IF c.symbol \notin DOMAIN portfolio
           THEN Raise(th, "KeyError") /\ UNCHANGED portfolio
           ELSE /\ portfolio' = IF portfolio[c.symbol].quantity = 0
                                THEN DelItem(portfolio, c.symbol)
                                ELSE portfolio
                /\ Goto(th, "L182")
                /\ UNCHANGED <<last, faults>>

\* lines 182-194: the SELL is logged and True returned
StepL182(th) ==
    LET c == calls.th[th]
    IN  /\ c.pc = "L182"
        /\ transactions' = AppendTransaction(transactions,
               Transaction(c.symbol, "SELL", c.quantity, c.order_price, c.commission,
                           TotalReceived(c.total_amount, c.commission)))
        /\ Return(th, TRUE, "Vente executee")
        /\ UNCHANGED <<cash_balance, portfolio, faults>>

\* the frame of every step of a call
CallFrame == UNCHANGED <<remote, GITHUB_TOKEN, now, sync, twin>>

CallStarts == (\E th \in Threads, o \in ConcOrderInputs : StartCall(th, o)) /\ CallFrame
CallValidates == (\E th \in Threads : StepL114(th)) /\ CallFrame
BuyChecks == (\E th \in Threads : StepL130(th)) /\ CallFrame
BuyDebits == (\E th \in Threads : StepL138(th)) /\ CallFrame
BuyLooksUp == (\E th \in Threads : StepL139(th)) /\ CallFrame
BuyAddsToPosition == (\E th \in Threads : StepL140(th)) /\ CallFrame
BuyOpensPosition == (\E th \in Threads : StepL146(th)) /\ CallFrame
BuyLogs == (\E th \in Threads : StepL153(th)) /\ CallFrame
SellChecks == (\E th \in Threads : StepL169(th)) /\ CallFrame
SellCredits == (\E th \in Threads : StepL174(th)) /\ CallFrame
SellReduces == (\E th \in Threads : StepL175(th)) /\ CallFrame
SellDeletes == (\E th \in Threads : StepL178(th)) /\ CallFrame
SellLogs == (\E th \in Threads : StepL182(th)) /\ CallFrame

\* every call has returned: the threads are free for the next calls
CallsOver ==
    /\ InProgress = {} /\ CallsReturned # {}
    /\ calls' = [calls EXCEPT !.th = [th \in Threads |-> IdleCall]]
    /\ UNCHANGED <<ledger, last, faults>>
    /\ CallFrame

InitConc ==
    /\ cash_balance = InitialCash
    /\ portfolio = EmptyPortfolio
    /\ transactions = <<>>
    /\ remote = <<>>
    /\ GITHUB_TOKEN = ""
    /\ last = NoCall
    /\ faults = 0
    /\ now = StartInstant
    /\ sync = NoSync
    /\ twin = NoTwin
    /\ calls = [base |-> [cash_balance |-> InitialCash, portfolio |-> EmptyPortfolio],
                th |-> [th \in Threads |-> IdleCall]]

NextConc ==
    \/ CallStarts \/ CallValidates
    \/ BuyChecks \/ BuyDebits \/ BuyLooksUp \/ BuyAddsToPosition
    \/ BuyOpensPosition \/ BuyLogs
    \/ SellChecks \/ SellCredits \/ SellReduces \/ SellDeletes \/ SellLogs
    \/ CallsOver

SpecConc == InitConc /\ [][NextConc]_vars

(***************************************************************************)
(* What the claims read.                                                   *)
(***************************************************************************)
\* the last call was an execute_order of this side that returned True
Executed(side) ==
    last.op = "execute_order" /\ last.order_type = side /\ last.ok

\* the step is an execute_order call of this side that returns True
Executes(side) ==
    last'.op = "execute_order" /\ last'.order_type = side /\ last'.ok

\* the record an accepted order has just appended
Appended == transactions'[Len(transactions')]

\* quantity held of a symbol, 0 when there is no position
Held(pf, symbol) == IF symbol \in DOMAIN pf THEN pf[symbol].quantity ELSE 0

\* a quantity the rules allow: a positive multiple of the minimum lot size
ValidQuantity(quantity) == quantity >= 1 /\ quantity % min_lot_size = 0

\* s is a prefix of t
IsPrefix(s, t) == Len(s) <= Len(t) /\ SubSeq(t, 1, Len(s)) = s

(***************************************************************************)
(* C1. After an executed (accepted) order the cash balance is never        *)
(* negative.  Stated here for the sessions in which every executed order   *)
(* had a valid (positive) quantity, so that a violation owes nothing to    *)
(* the orders C6 is about.                                                 *)
(***************************************************************************)
C1_CashNeverNegative ==
    (/\ last.op = "execute_order" /\ last.ok
     /\ faults = 0
     /\ \A i \in DOMAIN transactions : ValidQuantity(transactions[i].quantity))
    => cash_balance >= 0

(***************************************************************************)
(* C2. An accepted BUY of quantity q at price p on a symbol held with      *)
(* quantity Q and average cost A leaves the average cost                   *)
(* (Q*A + q*p) / (Q+q)  (BUY 10 @ 8500 then BUY 10 @ 9000 gives 8750).     *)
(***************************************************************************)
C2_WeightedAverageOnBuy ==
    [][ (Executes("BUY") /\ last'.symbol \in DOMAIN portfolio) =>
          LET s == last'.symbol
              Q == portfolio[s].quantity
              A == portfolio[s].avg_price
              q == last'.quantity
              p == Appended.price
          IN  portfolio'[s].avg_price * (Q + q) = Q * A + q * p ]_vars

(***************************************************************************)
(* C3. Every accepted BUY debits quantity*price + commission from the      *)
(* cash, raises the held quantity by exactly quantity and, when the symbol *)
(* was not held, creates the position with that quantity at the execution  *)
(* price; the execution price is the limit when one is given and the       *)
(* reference price otherwise.  BUY 10 BICC with no limit on the initial    *)
(* session debits 90000 and leaves quantity 10 at average cost 8500.       *)
(***************************************************************************)
C3_BuyDebitsAndAdds ==
    [][ Executes("BUY") =>
          LET s == last'.symbol
              q == last'.quantity
              t == Appended
          IN  /\ Len(transactions') = Len(transactions) + 1
              /\ t.symbol = s /\ t.type = "BUY" /\ t.quantity = q
              /\ last'.price = None => t.price = market_data[s].price
              /\ (last'.price # None /\ last'.price[1] > 0) => t.price = last'.price[1]
              /\ cash_balance' = cash_balance - (q * t.price + t.commission)
              /\ s \in DOMAIN portfolio'
              /\ portfolio'[s].quantity = Held(portfolio, s) + q
              /\ s \notin DOMAIN portfolio =>
                    /\ portfolio'[s].quantity = q
                    /\ portfolio'[s].avg_price = t.price
              /\ (/\ transactions = <<>> /\ cash_balance = FCFA(1000000)
                  /\ s = "BICC" /\ q = 10 /\ last'.price = None) =>
                    /\ cash_balance' = FCFA(1000000) - FCFA(90000)
                    /\ portfolio'[s].quantity = 10
                    /\ portfolio'[s].avg_price = FCFA(8500) ]_vars

\* the session right after BUY 10 BICC at the market price (Scenario A)
C3_Witness ==
    /\ Executed("BUY") /\ last.symbol = "BICC" /\ last.quantity = 10
    /\ last.price = None
    /\ Len(transactions) = 1
    /\ cash_balance = FCFA(910000)
    /\ portfolio["BICC"].quantity = 10
    /\ portfolio["BICC"].avg_price = FCFA(8500)

(***************************************************************************)
(* C4. A SELL is accepted only when the quantity asked is at most the      *)
(* quantity held, and is otherwise rejected (for insufficient holdings,    *)
(* when no earlier check rejects it).  An accepted SELL credits            *)
(* quantity*price - commission, lowers the held quantity by quantity,      *)
(* removes the position exactly when nothing is left, and leaves the       *)
(* average cost of a remaining position as it was.                         *)
(***************************************************************************)
C4_SellRule ==
    [][ (last'.op = "execute_order" /\ last'.order_type = "SELL") =>
          LET s == last'.symbol
              q == last'.quantity
              short == s \notin DOMAIN portfolio \/ portfolio[s].quantity < q
          IN  /\ last'.ok => ~short
              /\ short => /\ ~last'.ok /\ ~last'.raised
                          /\ last'.msg \in {"Symbole non trouve", "Prix hors limites",
                                            "Actions insuffisantes"}
              /\ (short /\ s \in DOMAIN market_data /\ last'.price = None) =>
                    last'.msg = "Actions insuffisantes"
              /\ last'.ok =>
                    LET t == Appended
                        left == portfolio[s].quantity - q
                    IN  /\ Len(transactions') = Len(transactions) + 1
                        /\ t.symbol = s /\ t.type = "SELL" /\ t.quantity = q
                        /\ cash_balance' = cash_balance + q * t.price - t.commission
                        /\ Held(portfolio', s) = left
                        /\ (s \notin DOMAIN portfolio') <=> (left = 0)
                        /\ s \in DOMAIN portfolio' =>
                              portfolio'[s].avg_price = portfolio[s].avg_price ]_vars

\* a partial SELL went through: part of a position bought at 9000 is left
C4_Witness ==
    /\ Executed("SELL") /\ last.symbol = "BICC" /\ last.quantity = 10
    /\ "BICC" \in DOMAIN portfolio
    /\ portfolio["BICC"].quantity = 10
    /\ portfolio["BICC"].avg_price = FCFA(9000)

(***************************************************************************)
(* C5. A call of execute_order that rejects the order leaves the cash      *)
(* balance, the portfolio and the log exactly as they were.                *)
(***************************************************************************)
RejectionMessages ==
    {"Symbole non trouve", "Prix hors limites", "Liquidites insuffisantes",
     "Quantite trop importante", "Actions insuffisantes"}

C5_RejectChangesNothing ==
    [][ (last'.op = "execute_order" /\ ~last'.ok /\ last'.msg \in RejectionMessages)
          => /\ cash_balance' = cash_balance
             /\ portfolio' = portfolio
             /\ transactions' = transactions ]_vars

\* a SELL of a symbol the portfolio does not hold was rejected (Scenario B),
\* on a session that holds something else
C5_Witness ==
    /\ last.op = "execute_order" /\ last.order_type = "SELL" /\ ~last.ok
    /\ last.msg = "Actions insuffisantes"
    /\ last.symbol = "BICC" /\ "BICC" \notin DOMAIN portfolio
    /\ "ETIT" \in DOMAIN portfolio
    /\ Len(transactions) = 1

(***************************************************************************)
(* C6. An order whose quantity is not a positive multiple of the minimum   *)
(* lot size (0 and the negative quantities in particular) is rejected.     *)
(***************************************************************************)
C6_InvalidQuantityRejected ==
    (last.op = "execute_order" /\ ~ValidQuantity(last.quantity))
    => (~last.ok /\ ~last.raised)

(***************************************************************************)
(* C7. Every position stored in the portfolio has a quantity above 0.      *)
(***************************************************************************)
C7_PositionsPositive ==
    \A s \in DOMAIN portfolio : portfolio[s].quantity > 0

(***************************************************************************)
(* C8. A call of execute_order, returning or failing, applies all of its   *)
(* effects or none: the cash changes, one position is upserted or removed  *)
(* and one record is appended to the log, or nothing changes.              *)
(***************************************************************************)
C8_AllOrNothing ==
    [][ last'.op = "execute_order" =>
          \/ /\ cash_balance' = cash_balance
             /\ portfolio' = portfolio
             /\ transactions' = transactions
          \/ /\ cash_balance' # cash_balance
             /\ Len(transactions') = Len(transactions) + 1
             /\ IsPrefix(transactions, transactions')
             /\ \A s \in (DOMAIN portfolio \cup DOMAIN portfolio') \ {last'.symbol} :
                   /\ s \in DOMAIN portfolio /\ s \in DOMAIN portfolio'
                   /\ portfolio'[s] = portfolio[s] ]_vars

(***************************************************************************)
(* C9. Across execute_order, save_to_github and load_from_github the log   *)
(* only grows by appending: the log before a call is a prefix of the log   *)
(* after it.                                                               *)
(***************************************************************************)
C9_LogOnlyGrows ==
    [][ IsPrefix(transactions, transactions') ]_vars

(***************************************************************************)
(* C9 as amended.  Across execute_order and save_to_github the log before  *)
(* the call is a prefix of the log after it; a load_from_github that       *)
(* succeeds replaces the log by the log of the saved file, and one that    *)
(* fails leaves it alone.                                                  *)
(***************************************************************************)
C9_LogGrowsExceptOnLoad ==
    [][ /\ last'.op # "load_from_github" => IsPrefix(transactions, transactions')
        /\ last'.op = "save_to_github" => transactions' = transactions
        /\ (last'.op = "load_from_github" /\ last'.ok) =>
              /\ remote # <<>>
              /\ transactions' = remote[1].transactions
        /\ (last'.op = "load_from_github" /\ ~last'.ok) =>
              transactions' = transactions ]_vars

\* two orders were logged one after the other, the first of them saved
C9_Witness ==
    /\ last.op = "execute_order" /\ last.ok
    /\ Len(transactions) = 2
    /\ remote # <<>>
    /\ remote[1].transactions = SubSeq(transactions, 1, 1)

(***************************************************************************)
(* C10. With reference price R, an order whose execution price (the limit  *)
(* when one is supplied, else R) is below R*0.925 or above R*1.075 is      *)
(* rejected as out of the price limits, on either side and in any state    *)
(* of the account; a price inside the band, each limit included, is not    *)
(* rejected for that reason.  (0.925 = 37/40, 1.075 = 43/40.)              *)
(***************************************************************************)
C10_PriceBand ==
    (/\ last.op = "execute_order"
     /\ last.symbol \in DOMAIN market_data
     /\ (last.price = None \/ last.price[1] > 0))
    => LET R == market_data[last.symbol].price
           p == IF last.price = None THEN R ELSE last.price[1]
           outside == p * 40 < R * 37 \/ p * 40 > R * 43
       IN  /\ outside => (~last.ok /\ ~last.raised /\ last.msg = "Prix hors limites")
           /\ ~outside => last.msg # "Prix hors limites"

\* limit 9200 against reference 8500 was rejected (Scenario C), for a SELL
\* of a held position
C10_Witness ==
    /\ last.op = "execute_order" /\ last.symbol = "BICC"
    /\ last.order_type = "SELL"
    /\ last.price = Some(FCFA(9200))
    /\ ~last.ok /\ last.msg = "Prix hors limites"
    /\ "BICC" \in DOMAIN portfolio

(***************************************************************************)
(* C11. execute_order reports the first failing check in the order:        *)
(* unknown symbol, price band, then for a BUY the liquidity cap followed   *)
(* by the funds.  So a BUY of a listed symbol, inside the band, whose      *)
(* quantity exceeds 10% of the average volume is rejected for its          *)
(* quantity, whatever the cash balance; the funds are the reason given     *)
(* only when the quantity is within the cap.                               *)
(***************************************************************************)
C11_LiquidityBeforeFunds ==
    (/\ last.op = "execute_order" /\ last.order_type = "BUY"
     /\ last.symbol \in DOMAIN market_data
     /\ last.msg # "Prix hors limites"
     /\ last.quantity * VolumeCapDen > market_data[last.symbol].volume)
    => (~last.ok /\ last.msg = "Quantite trop importante")

\* a log without the fields read from the clock
SansClock(log) ==
    [i \in DOMAIN log |->
        [f \in DOMAIN log[i] \ {"timestamp", "settlement_date"} |-> log[i][f]]]

(***************************************************************************)
(* C12. The outcome of execute_order does not depend on the trading        *)
(* window.  Two sessions in the same state are given the same call, one    *)
(* while is_trading_time reports the market open and one while it reports  *)
(* it closed: they return the same result and message and end with the     *)
(* same cash, the same positions and, the clock fields apart, the same     *)
(* log.                                                                    *)
(***************************************************************************)
C12_WindowNotEnforced ==
    (twin.phase \in {"back", "first"} /\ twin.order # <<>>)
    => /\ last = twin.last
       /\ cash_balance = twin.cash_balance
       /\ portfolio = twin.portfolio
       /\ SansClock(transactions) = SansClock(twin.transactions)

\* a SELL was accepted on a Saturday, as it was on the session served
\* during trading hours
C12_Witness ==
    /\ twin.phase = "back"
    /\ is_trading_time(now) = <<FALSE, "Marche ferme (weekend)">>
    /\ last.op = "execute_order" /\ last.order_type = "SELL" /\ last.ok
    /\ is_trading_time(twin.transactions[Len(twin.transactions)].timestamp)[1]
    /\ cash_balance # InitialCash

(***************************************************************************)
(* C13. The validate-then-execute sequence of execute_order is atomic      *)
(* with respect to another caller on the same ledger.  Of its              *)
(* consequences: when two calls made together have both returned, two      *)
(* SELLs of a symbol are not both accepted if their quantities together    *)
(* exceed the quantity that was held, two BUYs are not both accepted if    *)
(* their costs together exceed the cash there was, and no call has raised. *)
(***************************************************************************)
C13_CallsAreAtomic ==
    (calls.th[1].pc \in {"done", "raised"} /\ calls.th[2].pc \in {"done", "raised"})
    => LET a == calls.th[1]
           b == calls.th[2]
       IN  /\ a.pc = "done" /\ b.pc = "done"
           /\ (/\ a.ok /\ b.ok
               /\ a.order_type = "SELL" /\ b.order_type = "SELL"
               /\ a.symbol = b.symbol)
              => a.quantity + b.quantity <= Held(calls.base.portfolio, a.symbol)
           /\ (a.ok /\ b.ok /\ a.order_type = "BUY" /\ b.order_type = "BUY")
              => TotalCost(a.total_amount, a.commission)
                   + TotalCost(b.total_amount, b.commission)
                 <= calls.base.cash_balance

(***************************************************************************)
(* C14. save_to_github never silently overwrites a revision of the remote  *)
(* file that the saving session has not loaded: when the file holds        *)
(* something other than what this session last loaded or saved, written    *)
(* by another session, the save fails and the file keeps the other         *)
(* session's content.                                                      *)
(***************************************************************************)
C14_SaveReportsConflict ==
    [][ (/\ SaveToGithub
         /\ GITHUB_TOKEN # ""
         /\ remote # <<>> /\ remote # sync.content)
        => (~last'.ok /\ remote' = remote) ]_vars

(***************************************************************************)
(* C15. The persistence round trip: a save_to_github that succeeds,        *)
(* followed by a load_from_github that succeeds with no other save of      *)
(* the file in between, leaves the session with the cash balance, the      *)
(* positions and the log it had when it saved, whatever orders it          *)
(* executed after saving.                                                  *)
(***************************************************************************)
C15_SaveThenLoad ==
    [][ (/\ LoadFromGithub /\ last'.ok
         /\ sync.how = "save" /\ sync.content = remote)
        => /\ cash_balance' = sync.data[1].cash_balance
           /\ portfolio' = sync.data[1].portfolio
           /\ transactions' = sync.data[1].transactions ]_vars

\* a session that had bought BICC saved its ledger and loaded it back
C15_Witness ==
    /\ last.op = "load_from_github" /\ last.ok
    /\ sync.how = "load" /\ sync.after = "save"
    /\ "BICC" \in DOMAIN portfolio
    /\ Len(transactions) = 1
    /\ cash_balance < InitialCash

(***************************************************************************)
(* C16. A persistence failure never alters the in-memory ledger:           *)
(* save_to_github, whatever its outcome (success, no token, error status,  *)
(* exception), leaves cash, positions and log as they were, and so does a  *)
(* load_from_github that fails (no token, status other than 200,           *)
(* exception).                                                             *)
(***************************************************************************)
C16_FailureKeepsLedger ==
    [][ /\ SaveToGithub => ledger' = ledger
        /\ (LoadFromGithub /\ ~last'.ok) => ledger' = ledger ]_vars

\* a session with an executed order was refused a load of a file that exists
C16_Witness ==
    /\ last.op = "load_from_github" /\ ~last.ok
    /\ last.msg = "Aucune sauvegarde trouvee"
    /\ remote # <<>>
    /\ Len(transactions) >= 1
    /\ remote[1] # json_dumps(SessionData)

\* c is the commission the rule gives on amount: 0.6% of it (3 thousandths
\* for each half franc) when that is above 5000 FCFA, else 5000 FCFA
CommissionRule(amount, c) ==
    LET half_francs == amount \div 500
        six_per_mille == half_francs * 3
    IN  /\ amount % 500 = 0
        /\ c >= 5000 * 1000
        /\ six_per_mille > 5000 * 1000 => c = six_per_mille
        /\ six_per_mille <= 5000 * 1000 => c = 5000 * 1000

(***************************************************************************)
(* C17. calculate_commission(amount) = max(amount * 0.006, 5000) for       *)
(* every amount >= 0: the commission estimated for an order and the one    *)
(* logged with every executed order is never below 5000 FCFA and is 0.6%   *)
(* of the gross amount exactly when that exceeds 5000 FCFA.                *)
(***************************************************************************)
C17_CommissionRule ==
    /\ last.op = "calculate_commission" =>
          (last.amount >= 0 /\ CommissionRule(last.amount, last.commission))
    /\ \A i \in DOMAIN transactions :
          CommissionRule(transactions[i].quantity * transactions[i].price,
                         transactions[i].commission)

\* an order was logged with the commission of 0.6% (5916 on 986,000) and
\* the estimate for 833,333.5 FCFA is the first above the minimum
C17_Witness ==
    /\ \E i \in DOMAIN transactions :
          /\ transactions[i].commission = FCFA(5916)
          /\ transactions[i].quantity * transactions[i].price = FCFA(986000)
    /\ last.op = "calculate_commission"
    /\ last.amount = HalfFCFA(2 * 833333 + 1)
    /\ last.commission = FCFA(5000) + 1

(***************************************************************************)
(* C18. Every transaction recorded carries a signed net cash flow equal    *)
(* to the change it made to the cash balance: the step that appends a BUY  *)
(* record changes the cash by the record's 'total', which is strictly      *)
(* negative (minus the total cost); the step that appends a SELL record    *)
(* changes it by the record's 'total', which is strictly positive (the     *)
(* net proceeds).  Stated for orders of a valid (positive) quantity, so    *)
(* that a violation owes nothing to the orders C6 is about.                *)
(***************************************************************************)
C18_SignedNetCashFlow ==
    [][ (/\ last'.op = "execute_order" /\ last'.ok
         /\ Len(transactions') = Len(transactions) + 1
         /\ ValidQuantity(last'.quantity))
        => /\ cash_balance' - cash_balance = Appended.total
           /\ Appended.type = "BUY" => Appended.total < 0
           /\ Appended.type = "SELL" => Appended.total > 0 ]_vars

(***************************************************************************)
(* C19. Loading is idempotent: of two load_from_github calls that succeed  *)
(* with no save of the file, by any session, between them, the second      *)
(* leaves the session with the cash, positions and log the first left,     *)
(* whatever the session did in between.                                    *)
(***************************************************************************)
C19_LoadIdempotent ==
    [][ (/\ LoadFromGithub /\ last'.ok
         /\ sync.how = "load" /\ sync.content = remote)
        => /\ cash_balance' = sync.data[1].cash_balance
           /\ portfolio' = sync.data[1].portfolio
           /\ transactions' = sync.data[1].transactions ]_vars

\* a file with 1 ETIT held was loaded twice in a row without a save
C19_Witness ==
    /\ last.op = "load_from_github" /\ last.ok
    /\ sync.how = "load" /\ sync.after = "load"
    /\ DOMAIN portfolio = {"ETIT"}
    /\ Len(transactions) = 1

\* the sum of field f over the records of the log that are of this type
\* (and of this symbol, when one is given)
RECURSIVE SumOfLog(_, _, _, _)
SumOfLog(log, type, symbols, f) ==
    IF log = <<>> THEN 0
    ELSE LET t == Head(log)
         IN  (IF t.type = type /\ t.symbol \in symbols THEN t[f] ELSE 0)
               + SumOfLog(Tail(log), type, symbols, f)

\* the ledger reconciles with a log
Reconciles(log) ==
    /\ cash_balance = InitialCash
                        - SumOfLog(log, "BUY", DOMAIN market_data, "total")
                        + SumOfLog(log, "SELL", DOMAIN market_data, "total")
    /\ \A s \in DOMAIN market_data :
          LET net == SumOfLog(log, "BUY", {s}, "quantity")
                       - SumOfLog(log, "SELL", {s}, "quantity")
          IN  /\ Held(portfolio, s) = net
              /\ s \in DOMAIN portfolio <=> net # 0

(***************************************************************************)
(* C20. The ledger reconciles with the log: after any sequence of          *)
(* execute_order calls from the initial state, the cash balance is         *)
(* 1,000,000 minus the 'total' of the logged BUYs plus the 'total' of the  *)
(* logged SELLs, and for every symbol the quantity held is the logged      *)
(* BUY quantities minus the logged SELL quantities, the symbol being in    *)
(* the portfolio exactly when that difference is not zero.                 *)
(***************************************************************************)
C20_LedgerReconciles == Reconciles(transactions)

\* the same, for the sessions in which every call had a valid quantity
C20_ValidOrdersReconcile ==
    (faults = 0 /\ \A i \in DOMAIN transactions : ValidQuantity(transactions[i].quantity))
    => Reconciles(transactions)

====
